---- MODULE Spec2Model ----
(***************************************************************************)
(* Model of src/components/upload-screen-dialog.tsx: the UploadScreenDialog *)
(* component and the create-or-update-with-versioning routine it runs      *)
(* against the `screens` table.                                            *)
(*                                                                         *)
(* One dialog (form, svgFile, dialogOpen) and a bounded number of onSubmit *)
(* invocations in flight.  Every `await` of a backend call is one step: the *)
(* call's effect on the table, its response, and the continuation of the   *)
(* async function up to the next await.  A backend call either succeeds or *)
(* returns an error result ("fault"); the client library never throws, it  *)
(* returns { data: null, error } instead.                                  *)
(***************************************************************************)
EXTENDS Integers, Sequences, FiniteSets, TLC

\* ---- bounds ----
MaxRows == 3
MaxSubs == 2

Subs == 1..MaxSubs

\* values the user can type / drop; "a" and "x" are the too-short cases
NameInputs == {"a", "ab", "cd"}
FileInputs == {"x", "s1"}

\* results of one backend round trip
Results == {"ok", "fault"}

NoFile == "none"
NoValues == [name |-> "", file |-> ""]

VARIABLES
    table,          \* the screens relation, in insertion order
    svgFile,        \* useState svgFile: content of the loaded file or NoFile
    dialogOpen,     \* useState dialogOpen
    form,           \* useForm values: [name, file]
    formErrors,     \* fields whose validation message is shown
    pc,             \* position of each onSubmit invocation
    values,         \* the values onSubmit was called with
    existingScreen, \* id returned by the lookup, 0 for null
    newVersion,     \* createNewVersion's newVersion
    calls,          \* what the invocation has done so far, in order
    snap,           \* the table when the invocation started
    overlapped,     \* another invocation was in flight during this one
    outcome         \* "none", "ok" (try block completed) or "failed" (catch)

vars == <<table, svgFile, dialogOpen, form, formErrors, pc, values,
          existingScreen, newVersion, calls, snap, overlapped, outcome>>

\* ---- the backend ----

\* what an insert supplies; the storage adds the id
Row(n, h, v, c) == [name |-> n, html_file |-> h, version |-> v, changes |-> c]

\* a stored row
Stored(i, row) ==
    [id |-> i, name |-> row.name, html_file |-> row.html_file,
     version |-> row.version, changes |-> row.changes]

RECURSIVE MaxOver(_, _)
MaxOver(t, i) ==
    IF i = 0 THEN 0
    ELSE LET m == MaxOver(t, i - 1)
         IN IF t[i].version > m THEN t[i].version ELSE m

MaxVersion(t) == MaxOver(t, Len(t))

IdsNamed(t, n) == {t[i].id : i \in {j \in 1..Len(t) : t[j].name = n}}

\* .select('id').eq('name', n).maybeSingle(): no row gives null, one row gives
\* the row, several rows give null together with an error result
MaybeSingle(t, n, res) ==
    LET ids == IdsNamed(t, n)
    IN IF res # "ok" THEN [data |-> 0, error |-> "fault"]
       ELSE IF Cardinality(ids) = 0 THEN [data |-> 0, error |-> "none"]
       ELSE IF Cardinality(ids) = 1
            THEN [data |-> CHOOSE i \in ids : TRUE, error |-> "none"]
       ELSE [data |-> 0, error |-> "multi"]

\* .select('version').order('version', desc).limit(1)
SelectLastVersion(t, res) ==
    IF res # "ok" THEN [data |-> <<>>, isNull |-> TRUE]
    ELSE IF Len(t) = 0 THEN [data |-> <<>>, isNull |-> FALSE]
    ELSE [data |-> <<MaxVersion(t)>>, isNull |-> FALSE]

\* .insert(row): the id is generated by the storage
InsertRowUnique(t, row) ==
    IF IdsNamed(t, row.name) # {} THEN t
    ELSE Append(t, Stored(Len(t) + 1, row))

InsertRow(t, row) == Append(t, Stored(Len(t) + 1, row))

\* .update({ html_file: h }).eq('id', id)
UpdateHtmlFileAndVersion(t, id, h) ==
    [i \in 1..Len(t) |->
        IF t[i].id = id
        THEN [t[i] EXCEPT !.html_file = h, !.version = MaxVersion(t)]
        ELSE t[i]]

UpdateHtmlFile(t, id, h) ==
    [i \in 1..Len(t) |->
        IF t[i].id = id THEN [t[i] EXCEPT !.html_file = h] ELSE t[i]]

\* ---- the component ----

\* formSchema
FormValidMin1(v) == Len(v.name) >= 1 /\ Len(v.file) >= 2

FormValid(v) == Len(v.name) >= 2 /\ Len(v.file) >= 2

SchemaErrors(v) ==
    (IF Len(v.name) >= 2 THEN {} ELSE {"name"})
        \cup (IF Len(v.file) >= 2 THEN {} ELSE {"file"})

InFlight(s) == pc[s] \notin {"idle", "done"}

\* no invocation has finished without its record having been dropped (Settle)
Settled == \A s \in Subs : pc[s] # "done"

Init ==
    /\ table \in {<<>>, <<Stored(1, Row("ab", "s0", 1, ""))>>}
    /\ svgFile = NoFile
    /\ dialogOpen = FALSE
    /\ form = [name |-> "", file |-> ""]
    /\ formErrors = {}
    /\ pc = [s \in Subs |-> "idle"]
    /\ values = [s \in Subs |-> NoValues]
    /\ existingScreen = [s \in Subs |-> 0]
    /\ newVersion = [s \in Subs |-> 0]
    /\ calls = [s \in Subs |-> <<>>]
    /\ snap = [s \in Subs |-> <<>>]
    /\ overlapped = [s \in Subs |-> FALSE]
    /\ outcome = [s \in Subs |-> "none"]

\* ---- UI handlers ----

\* <Dialog open={dialogOpen} onOpenChange={setDialogOpen}>
OnOpenChange ==
    /\ Settled
    /\ dialogOpen' = ~dialogOpen
    /\ UNCHANGED <<table, svgFile, form, formErrors, pc, values, existingScreen,
                   newVersion, calls, snap, overlapped, outcome>>

\* the name <Input {...field}/>, rendered inside the open dialog
SetName(n) ==
    /\ Settled
    /\ dialogOpen
    /\ form.name # n
    /\ form' = [form EXCEPT !.name = n]
    /\ UNCHANGED <<table, svgFile, dialogOpen, formErrors, pc, values,
                   existingScreen, newVersion, calls, snap, overlapped, outcome>>

\* onDrop -> handleFileChange; the drop zone is rendered only while svgFile
\* is unset
HandleFileChange(content) ==
    /\ Settled
    /\ dialogOpen
    /\ svgFile = NoFile
    /\ svgFile' = content
    /\ form' = [form EXCEPT !.file = content]
    /\ UNCHANGED <<table, dialogOpen, formErrors, pc, values, existingScreen,
                   newVersion, calls, snap, overlapped, outcome>>

\* form.handleSubmit(onSubmit): validate, then call onSubmit with the values
HandleSubmit(s) ==
    /\ Settled
    /\ dialogOpen
    /\ pc[s] = "idle"
    /\ \A t \in Subs : t < s => pc[t] # "idle"
    /\ IF FormValid(form)
       THEN /\ Len(table) + Cardinality({t \in Subs : InFlight(t)}) < MaxRows
            /\ formErrors' = {}
            /\ pc' = [pc EXCEPT ![s] = "lookup"]
            /\ values' = [values EXCEPT ![s] = form]
            /\ snap' = [snap EXCEPT ![s] = table]
            /\ overlapped' = [t \in Subs |->
                   IF t = s THEN \E u \in Subs : InFlight(u)
                   ELSE IF InFlight(t) THEN TRUE ELSE overlapped[t]]
            /\ UNCHANGED <<table, svgFile, dialogOpen, form, existingScreen,
                           newVersion, calls, outcome>>
       ELSE /\ formErrors' = SchemaErrors(form)
            /\ UNCHANGED <<table, svgFile, dialogOpen, form, pc, values,
                           existingScreen, newVersion, calls, snap, overlapped,
                           outcome>>

\* ---- onSubmit and its helpers ----

Call(op, res) == [op |-> op, res |-> res]

\* if (existingScreen) ... else ...
AfterLookup(data) == IF data # 0 THEN "readmax" ELSE "create"

NewVersionNoIncrement(lastVersion) ==
    IF lastVersion.isNull THEN 1
    ELSE IF lastVersion.data = <<>> THEN 1
    ELSE lastVersion.data[1]

\* (lastVersion && lastVersion[0]?.version + 1) || 1
NewVersion(lastVersion) ==
    IF lastVersion.isNull THEN 1
    ELSE IF lastVersion.data = <<>> THEN 1
    ELSE IF lastVersion.data[1] + 1 = 0 THEN 1
    ELSE lastVersion.data[1] + 1

NewScreenRowPlaceholder(v) == Row(v.name, v.file, 1, "TODO: Specify the changes here")

\* the row createNewScreen inserts
NewScreenRow(v) == Row(v.name, v.file, 1, "")

\* the row createNewVersion inserts
NewVersionRow(v, ver) == Row(v.name, v.file, ver, "TODO: Specify the changes here")

SucceedUnawaited(s, entry) ==
    /\ calls' = [calls EXCEPT ![s] = @ \o <<Call("refresh", "ok"),
                                             Call("close", "ok"), entry>>]
    /\ dialogOpen' = FALSE
    /\ outcome' = [outcome EXCEPT ![s] = "ok"]
    /\ pc' = [pc EXCEPT ![s] = "done"]

\* the rest of the try block: router.refresh(); setDialogOpen(false)
Succeed(s, entry) ==
    /\ calls' = [calls EXCEPT ![s] = @ \o <<entry, Call("refresh", "ok"),
                                             Call("close", "ok")>>]
    /\ dialogOpen' = FALSE
    /\ outcome' = [outcome EXCEPT ![s] = "ok"]
    /\ pc' = [pc EXCEPT ![s] = "done"]

CatchAndClose(s, entry) ==
    /\ calls' = [calls EXCEPT ![s] = Append(@, entry)]
    /\ dialogOpen' = FALSE
    /\ outcome' = [outcome EXCEPT ![s] = "failed"]
    /\ pc' = [pc EXCEPT ![s] = "done"]

\* a throw inside the try block: catch (error) { console.error(error) }
Catch(s, entry) ==
    /\ calls' = [calls EXCEPT ![s] = Append(@, entry)]
    /\ dialogOpen' = dialogOpen
    /\ outcome' = [outcome EXCEPT ![s] = "failed"]
    /\ pc' = [pc EXCEPT ![s] = "done"]

\* onSubmit up to the branch: the existence lookup
Lookup(s, res) ==
    /\ Settled
    /\ pc[s] = "lookup"
    /\ LET resp == MaybeSingle(table, values[s].name, res)
       IN /\ existingScreen' = [existingScreen EXCEPT ![s] = resp.data]
          /\ calls' = [calls EXCEPT ![s] =
                 Append(@, Call("lookup", IF resp.error = "none" THEN "ok"
                                          ELSE resp.error))]
          /\ pc' = [pc EXCEPT ![s] = AfterLookup(resp.data)]
    /\ UNCHANGED <<table, svgFile, dialogOpen, form, formErrors, values,
                   newVersion, snap, overlapped, outcome>>

\* createNewScreen, then the rest of onSubmit
CreateNewScreen(s, res) ==
    /\ Settled
    /\ pc[s] = "create"
    /\ IF res = "ok"
       THEN /\ table' = InsertRow(table, NewScreenRow(values[s]))
            /\ Succeed(s, Call("insert", "ok"))
       ELSE /\ table' = table
            /\ Catch(s, Call("insert", res))
    /\ UNCHANGED <<svgFile, form, formErrors, values, existingScreen,
                   newVersion, snap, overlapped>>

\* createNewVersion: the max-version read
ReadLastVersion(s, res) ==
    /\ Settled
    /\ pc[s] = "readmax"
    /\ newVersion' = [newVersion EXCEPT ![s] =
           NewVersion(SelectLastVersion(table, res))]
    /\ calls' = [calls EXCEPT ![s] = Append(@, Call("readmax", res))]
    /\ pc' = [pc EXCEPT ![s] = "insert"]
    /\ UNCHANGED <<table, svgFile, dialogOpen, form, formErrors, values,
                   existingScreen, snap, overlapped, outcome>>

\* createNewVersion: the version insert, and the checks on its response
InsertVersion(s, res) ==
    /\ Settled
    /\ pc[s] = "insert"
    /\ IF res = "ok"
       THEN /\ table' = InsertRow(table, NewVersionRow(values[s], newVersion[s]))
            /\ calls' = [calls EXCEPT ![s] = Append(@, Call("insert", "ok"))]
            /\ pc' = [pc EXCEPT ![s] = "update"]
            /\ UNCHANGED <<dialogOpen, outcome>>
       ELSE /\ table' = table
            /\ Catch(s, Call("insert", res))
    /\ UNCHANGED <<svgFile, form, formErrors, values, existingScreen,
                   newVersion, snap, overlapped>>

\* updateExistingScreen: the content update, then the rest of onSubmit
UpdateExistingScreen(s, res) ==
    /\ Settled
    /\ pc[s] = "update"
    /\ IF res = "ok"
       THEN /\ table' = UpdateHtmlFile(table, existingScreen[s], values[s].file)
            /\ Succeed(s, Call("update", "ok"))
       ELSE /\ table' = table
            /\ Catch(s, Call("update", res))
    /\ UNCHANGED <<svgFile, form, formErrors, values, existingScreen,
                   newVersion, snap, overlapped>>

\* the promise returned by onSubmit settles and the invocation is gone: its
\* locals and the record of what it did are dropped.  Nothing else reads
\* them, so every other step waits for it (Settled).
Settle(s) ==
    /\ pc[s] = "done"
    /\ pc' = [pc EXCEPT ![s] = "idle"]
    /\ values' = [values EXCEPT ![s] = NoValues]
    /\ existingScreen' = [existingScreen EXCEPT ![s] = 0]
    /\ newVersion' = [newVersion EXCEPT ![s] = 0]
    /\ calls' = [calls EXCEPT ![s] = <<>>]
    /\ snap' = [snap EXCEPT ![s] = <<>>]
    /\ overlapped' = [overlapped EXCEPT ![s] = FALSE]
    /\ outcome' = [outcome EXCEPT ![s] = "none"]
    /\ UNCHANGED <<table, svgFile, dialogOpen, form, formErrors>>

Next ==
    \/ \E s \in Subs : Settle(s)
    \/ OnOpenChange
    \/ \E n \in NameInputs : SetName(n)
    \/ \E c \in FileInputs : HandleFileChange(c)
    \/ \E s \in Subs : HandleSubmit(s)
    \/ \E s \in Subs, res \in Results : Lookup(s, res)
    \/ \E s \in Subs, res \in Results : CreateNewScreen(s, res)
    \/ \E s \in Subs, res \in Results : ReadLastVersion(s, res)
    \/ \E s \in Subs, res \in Results : InsertVersion(s, res)
    \/ \E s \in Subs, res \in Results : UpdateExistingScreen(s, res)

Spec == Init /\ [][Next]_vars

\* submissions one after the other, every backend call succeeding
NextSeq ==
    \/ \E s \in Subs : Settle(s)
    \/ OnOpenChange
    \/ \E n \in NameInputs : SetName(n)
    \/ \E c \in FileInputs : HandleFileChange(c)
    \/ \E s \in Subs : (\A t \in Subs : ~InFlight(t)) /\ HandleSubmit(s)
    \/ \E s \in Subs : Lookup(s, "ok")
    \/ \E s \in Subs : CreateNewScreen(s, "ok")
    \/ \E s \in Subs : ReadLastVersion(s, "ok")
    \/ \E s \in Subs : InsertVersion(s, "ok")
    \/ \E s \in Subs : UpdateExistingScreen(s, "ok")

SpecSeq == Init /\ [][NextSeq]_vars

\* ---- properties ----

NoFault(log) == \A i \in 1..Len(log) : log[i].res = "ok"

Ops(log) == [i \in 1..Len(log) |-> log[i].op]

IsPrefix(a, b) == Len(a) <= Len(b) /\ \A i \in 1..Len(a) : a[i] = b[i]

CreateSeq == <<"lookup", "insert", "refresh", "close">>

UpdateSeq == <<"lookup", "readmax", "insert", "update", "refresh", "close">>

TodoChanges == "TODO: Specify the changes here"

\* C1: a submission that takes the create path for a name with no row, with
\* no failing call and no other submission in flight meanwhile, leaves the
\* table as it was when the submission started plus exactly one row carrying
\* the submitted name and content, version 1 and empty changes.
C1_CreatePath ==
    [][\A s \in Subs :
          (/\ pc[s] = "create"
           /\ outcome'[s] = "ok"
           /\ ~overlapped[s]
           /\ NoFault(calls'[s])
           /\ IdsNamed(snap[s], values[s].name) = {})
          => /\ Len(table') = Len(snap[s]) + 1
             /\ \A i \in 1..Len(snap[s]) : table'[i] = snap[s][i]
             /\ table'[Len(table')].name = values[s].name
             /\ table'[Len(table')].html_file = values[s].file
             /\ table'[Len(table')].version = 1
             /\ table'[Len(table')].changes = ""]_vars

C1_Witness ==
    \E s \in Subs :
        /\ pc[s] = "done"
        /\ outcome[s] = "ok"
        /\ ~overlapped[s]
        /\ NoFault(calls[s])
        /\ Ops(calls[s]) = CreateSeq
        /\ Len(snap[s]) = 1
        /\ IdsNamed(snap[s], values[s].name) = {}
        /\ Len(table) = 2
        /\ table[2].name = "cd"
        /\ table[2].version = 1

C3_LaterSubmissionsArePresent ==
    [][\A s \in Subs :
          /\ (pc[s] = "lookup" /\ pc'[s] # "lookup"
                  /\ IdsNamed(table, values[s].name) # {})
                => pc'[s] = "readmax"
          /\ (pc[s] = "create" /\ Len(table') > Len(table))
                => IdsNamed(table, values[s].name) = {}]_vars

\* C4: in the update path a failed version insert ends the submission with
\* no content update issued and the table untouched; a failed content update
\* ends it with the inserted version row still there and the matched row's
\* html_file as before; neither closes the dialog nor refreshes the view.
C4_UpdatePathFailure ==
    [][\A s \in Subs :
          /\ (pc[s] = "insert" /\ outcome'[s] = "failed")
                => /\ pc'[s] = "done"
                   /\ table' = table
                   /\ ~overlapped[s] => table' = snap[s]
                   /\ dialogOpen' = dialogOpen
                   /\ \A i \in 1..Len(calls'[s]) :
                         calls'[s][i].op \notin {"update", "refresh", "close"}
          /\ (pc[s] = "update" /\ outcome'[s] = "failed")
                => /\ pc'[s] = "done"
                   /\ table' = table
                   /\ ~overlapped[s] =>
                         table' = InsertRow(snap[s],
                                      Row(values[s].name, values[s].file,
                                          newVersion[s], TodoChanges))
                   /\ dialogOpen' = dialogOpen
                   /\ \A i \in 1..Len(calls'[s]) :
                         calls'[s][i].op \notin {"refresh", "close"}]_vars

C4_Witness ==
    \E s \in Subs :
        /\ pc[s] = "done"
        /\ outcome[s] = "failed"
        /\ ~overlapped[s]
        /\ Ops(calls[s]) = <<"lookup", "readmax", "insert", "update">>
        /\ calls[s][4].res = "fault"
        /\ dialogOpen
        /\ Len(table) = Len(snap[s]) + 1
        /\ table[existingScreen[s]].html_file = "s0"
        /\ values[s].file = "s1"

\* C5 (as claimed): once the lookup or the max-version read of a submission
\* has returned an error result, the submission inserts and updates nothing
\* and ends as a failure.
C5_ReadErrorsAreCaught ==
    \A s \in Subs :
        \A i \in 1..Len(calls[s]) :
            (calls[s][i].op \in {"lookup", "readmax"} /\ calls[s][i].res # "ok")
            => /\ \A j \in (i + 1)..Len(calls[s]) :
                     ~(calls[s][j].op \in {"insert", "update"}
                          /\ calls[s][j].res = "ok")
               /\ pc[s] = "done" => outcome[s] = "failed"

\* C6 (as claimed): every row the update path inserts has a version strictly
\* greater than the version of every row in the table at that moment.
C6_VersionsStrictlyIncrease ==
    [][\A s \in Subs :
          (pc[s] = "insert" /\ Len(table') > Len(table))
          => table'[Len(table')].version > MaxVersion(table)]_vars

\* C7: the create insert is unconditional: a submission that saw no row in
\* its lookup inserts its version-1 row whatever the table holds by then, and
\* another submission waiting at the same point stays there, so two rows of
\* one name at version 1 can result.
C7_BothCreationsInsert ==
    [][\A s \in Subs :
          (pc[s] = "create" /\ outcome'[s] = "ok")
          => /\ Len(table') = Len(table) + 1
             /\ \A i \in 1..Len(table) : table'[i] = table[i]
             /\ table'[Len(table')].name = values[s].name
             /\ table'[Len(table')].version = 1
             /\ \A t \in Subs \ {s} : pc[t] = "create" => pc'[t] = "create"]_vars

\* the second of two overlapping creations has just inserted: its lookup
\* succeeded and saw no row, and the first row was inserted into the empty
\* table by the other one
C7_Witness ==
    \E s \in Subs :
        /\ pc[s] = "done"
        /\ outcome[s] = "ok"
        /\ overlapped[s]
        /\ NoFault(calls[s])
        /\ Ops(calls[s]) = CreateSeq
        /\ snap[s] = <<>>
        /\ Len(table) = 2
        /\ table[1].changes = "" /\ table[2].changes = ""
        /\ table[1].name = values[s].name /\ table[2].name = values[s].name
        /\ table[1].version = 1 /\ table[2].version = 1

\* C8: onSubmit runs only with a name of at least 2 characters and a file of
\* at least 2 characters; a press of submit on a form that fails this shows
\* the validation messages, starts nothing, changes no row and leaves the
\* dialog open.
C8_ValidationGate ==
    [][/\ \A s \in Subs :
             pc'[s] # "idle"
             => Len(values'[s].name) >= 2 /\ Len(values'[s].file) >= 2
       /\ ((Len(form.name) < 2 \/ Len(form.file) < 2)
               /\ formErrors' # formErrors)
             => /\ table' = table
                /\ dialogOpen' = dialogOpen
                /\ dialogOpen
                /\ pc' = pc
                /\ calls' = calls]_vars

C8_Witness ==
    /\ form.name = "a"
    /\ form.file = "s1"
    /\ formErrors = {"name"}
    /\ dialogOpen
    /\ \A s \in Subs : pc[s] = "idle"

\* C9: what a submission does is a prefix of lookup, insert, refresh, close
\* or of lookup, max-version read, insert, update, refresh, close; the update
\* follows a successful version insert, refresh and close follow a successful
\* last call, and a submission that completes has made 2 or 4 backend calls.
C9_CallOrder ==
    \A s \in Subs :
        LET log == calls[s]
        IN /\ IsPrefix(Ops(log), CreateSeq) \/ IsPrefix(Ops(log), UpdateSeq)
           /\ \A i \in 1..Len(log) :
                 log[i].op \in {"update", "refresh"}
                 => i > 1 /\ log[i - 1].res = "ok"
                          /\ log[i - 1].op \in {"insert", "update"}
           /\ Cardinality({i \in 1..Len(log) :
                  log[i].op \in {"lookup", "readmax", "insert", "update"}}) <= 4
           /\ outcome[s] = "ok"
                 => Ops(log) = CreateSeq \/ Ops(log) = UpdateSeq

C9_Witness ==
    \E s, t \in Subs :
        /\ Ops(calls[s]) = UpdateSeq
        /\ outcome[s] = "ok"
        /\ overlapped[s]
        /\ Ops(calls[t]) = <<"lookup", "readmax", "insert">>

\* C10: no step removes a row or changes the id, name, version or changes of
\* a row; a step changes the html_file of a row only as the content update of
\* a submission of that row's name, to that submission's content.
C10_Frame ==
    [][/\ Len(table') >= Len(table)
       /\ \A i \in 1..Len(table) :
             /\ table'[i].id = table[i].id
             /\ table'[i].name = table[i].name
             /\ table'[i].version = table[i].version
             /\ table'[i].changes = table[i].changes
             /\ table'[i].html_file # table[i].html_file
                   => \E s \in Subs :
                         /\ pc[s] = "update"
                         /\ values[s].name = table[i].name
                         /\ table'[i].html_file = values[s].file]_vars

C10_Witness ==
    /\ Len(table) = 3
    /\ table[1].name = "ab" /\ table[1].html_file = "s1" /\ table[1].version = 1
    /\ table[2].name = "cd" /\ table[2].html_file = "s1"
    /\ table[3].name = "ab"

====
